---- MODULE Spec2Model ----
(***************************************************************************)
(* Chunk-size normalisation of embedding.py: the meaningfulness filter,    *)
(* the merge/flush loop of merge_small_chunks and the sentence splitter.   *)
(*                                                                         *)
(* A text is a run-length encoded string: a sequence of runs <<c, n>>,     *)
(* n >= 1 copies of the character c, no two neighbouring runs of the same  *)
(* character.  Every string operation below is exact on that encoding.     *)
(***************************************************************************)
EXTENDS Integers, Sequences, FiniteSets, TLC

----------------------------------------------------------------------------
(* Configuration, embedding.py lines 21-23.                                *)
MIN_CHUNK_SIZE == 100
OPTIMAL_CHUNK_SIZE == 512
MAX_CHUNK_SIZE == 800

----------------------------------------------------------------------------
(* Strings.                                                                *)

Whitespace == {" ", "\t", "\n"}

Run(c, n) == IF n = 0 THEN << >> ELSE << <<c, n>> >>

\* The operators that walk a whole text recurse on its two halves, so that a
\* text of a thousand runs is evaluated at a depth of ten.
Half(t) == Len(t) \div 2

RECURSIVE Normalize(_)
Normalize(t) ==
    IF Len(t) <= 1 THEN t
    ELSE LET l == Normalize(SubSeq(t, 1, Half(t)))
             r == Normalize(SubSeq(t, Half(t) + 1, Len(t)))
         IN  IF l[Len(l)][1] = r[1][1]
             THEN SubSeq(l, 1, Len(l) - 1)
                  \o << <<r[1][1], l[Len(l)][2] + r[1][2]>> >> \o Tail(r)
             ELSE l \o r

\* a + b
Concat(a, b) == Normalize(a \o b)

\* "".join of the characters of a word written letter by letter
Str(letters) == Normalize([k \in 1..Len(letters) |-> <<letters[k], 1>>])

RECURSIVE StrLen(_)
\* len(t)
StrLen(t) ==
    IF t = << >> THEN 0
    ELSE IF Len(t) = 1 THEN t[1][2]
    ELSE StrLen(SubSeq(t, 1, Half(t))) + StrLen(SubSeq(t, Half(t) + 1, Len(t)))

RECURSIVE CountOf(_, _)
\* sum of t.count(c) for c in the set cs
CountOf(t, cs) ==
    IF t = << >> THEN 0
    ELSE IF Len(t) = 1 THEN (IF t[1][1] \in cs THEN t[1][2] ELSE 0)
    ELSE CountOf(SubSeq(t, 1, Half(t)), cs)
         + CountOf(SubSeq(t, Half(t) + 1, Len(t)), cs)

LowerChar(c) ==
    CASE c = "T" -> "t"
      [] c = "C" -> "c"
      [] c = "P" -> "p"
      [] c = "I" -> "i"
      [] c = "A" -> "a"
      [] c = "B" -> "b"
      [] c = "R" -> "r"
      [] OTHER   -> c

\* t.lower()
Lower(t) == Normalize([k \in 1..Len(t) |-> <<LowerChar(t[k][1]), t[k][2]>>])

RECURSIVE LStrip(_)
LStrip(t) ==
    IF t # << >> /\ t[1][1] \in Whitespace THEN LStrip(Tail(t)) ELSE t

RECURSIVE RStrip(_)
RStrip(t) ==
    IF t # << >> /\ t[Len(t)][1] \in Whitespace
    THEN RStrip(SubSeq(t, 1, Len(t) - 1))
    ELSE t

\* t.strip()
Strip(t) == RStrip(LStrip(t))

\* does pat occur in t with its first character in run k of t
MatchAt(t, pat, k) ==
    LET m == Len(pat)
    IN  /\ k + m - 1 <= Len(t)
        /\ \A j \in 1..m :
              /\ t[k + j - 1][1] = pat[j][1]
              /\ IF j = 1 \/ j = m
                 THEN t[k + j - 1][2] >= pat[j][2]
                 ELSE t[k + j - 1][2] = pat[j][2]

\* pat in t   (pat not empty)
Contains(t, pat) == \E k \in 1..Len(t) : MatchAt(t, pat, k)

\* t.endswith('.')
EndsWithPeriod(t) == t # << >> /\ t[Len(t)][1] = "."

\* the runs where a ". " delimiter starts: the last '.' of run k, the first ' ' of run k+1
DelimiterAt(t, k) == k < Len(t) /\ t[k][1] = "." /\ t[k + 1][1] = " "

\* the runs a..b of t where a delimiter starts, in increasing order
RECURSIVE Delimiters(_, _, _)
Delimiters(t, a, b) ==
    IF a > b THEN << >>
    ELSE IF a = b THEN (IF DelimiterAt(t, a) THEN << a >> ELSE << >>)
    ELSE Delimiters(t, a, (a + b) \div 2) \o Delimiters(t, (a + b) \div 2 + 1, b)

\* t.split('. '): fragment j lies between delimiter j - 1 and delimiter j; it
\* keeps the other periods of the run where its delimiter starts and the
\* other blanks of the run where the delimiter before it ends
SplitSentences(t) ==
    LET d == Delimiters(t, 1, Len(t))
        n == Len(d)
    IN  [j \in 1..(n + 1) |->
            (IF j = 1 THEN << >> ELSE Run(" ", t[d[j - 1] + 1][2] - 1))
            \o SubSeq(t, IF j = 1 THEN 1 ELSE d[j - 1] + 2,
                          IF j = n + 1 THEN Len(t) ELSE d[j] - 1)
            \o (IF j = n + 1 THEN << >> ELSE Run(".", t[d[j]][2] - 1))]

----------------------------------------------------------------------------
(* count_tokens.  The tokenizer is utils/tokenizer.py, a wrapper of a      *)
(* byte-pair encoder.  It is modelled by its pre-tokenisation: every       *)
(* character that is not whitespace is a token; one whitespace character   *)
(* directly before such a character belongs to that token; any other       *)
(* stretch of whitespace is one token of its own.                          *)

\* the number of whitespace characters of the stretch that ends with run k
RECURSIVE StretchLen(_, _)
StretchLen(t, k) ==
    IF k = 0 \/ t[k][1] \notin Whitespace THEN 0
    ELSE t[k][2] + StretchLen(t, k - 1)

TokensOfRun(t, k) ==
    IF t[k][1] \notin Whitespace THEN t[k][2]
    ELSE IF k < Len(t) /\ t[k + 1][1] \in Whitespace THEN 0
    ELSE IF k = Len(t) THEN 1
    ELSE IF StretchLen(t, k) >= 2 THEN 1 ELSE 0

\* the tokens of the runs a..b of t
RECURSIVE TokensIn(_, _, _)
TokensIn(t, a, b) ==
    IF a > b THEN 0
    ELSE IF a = b THEN TokensOfRun(t, a)
    ELSE TokensIn(t, a, (a + b) \div 2) + TokensIn(t, (a + b) \div 2 + 1, b)

count_tokens(t) == TokensIn(t, 1, Len(t))

----------------------------------------------------------------------------
(* is_content_meaningful, embedding.py lines 60-92.                        *)

toc_indicators ==
    << Str(<<"t","a","b","l","e"," ","o","f"," ","c","o","n","t","e","n","t","s">>),
       Str(<<"c","o","n","t","e","n","t","s">>),
       Str(<<"c","h","a","p","t","e","r">>),
       Str(<<"p","a","g","e">>),
       Str(<<"i","n","d","e","x">>),
       Str(<<"a","p","p","e","n","d","i","x">>),
       Str(<<"b","i","b","l","i","o","g","r","a","p","h","y">>),
       Str(<<"r","e","f","e","r","e","n","c","e","s">>) >>

sentence_indicators == {".", "!", "?", ";", ":"}

\* sum(1 for indicator in toc_indicators if indicator in text_lower)
TocMatches(text_lower) ==
    Cardinality({k \in 1..Len(toc_indicators) : Contains(text_lower, toc_indicators[k])})

\* toc_ratio > 0.3, with toc_ratio = matches / len(toc_indicators)
TocRatioTooHigh(matches) == 10 * matches > 3 * Len(toc_indicators)

\* formatting_chars / len(text) > 0.7
MostlyFormatting(text) == 10 * CountOf(text, Whitespace) > 7 * StrLen(text)

\* is_content_meaningful with `<= 50` for `< 50`
is_content_meaningful_AtMost50(text) ==
    LET text_lower == Strip(Lower(text))
    IN  IF StrLen(text_lower) <= 50 THEN FALSE
        ELSE IF TocRatioTooHigh(TocMatches(text_lower)) THEN FALSE
        ELSE IF MostlyFormatting(text) THEN FALSE
        ELSE CountOf(text, sentence_indicators) > 0

is_content_meaningful(text) ==
    LET text_lower == Strip(Lower(text))
    IN  IF StrLen(text_lower) < 50 THEN FALSE
        ELSE IF StrLen(Strip(text_lower)) <= 2 THEN FALSE
        ELSE IF TocRatioTooHigh(TocMatches(text_lower)) THEN FALSE
        ELSE IF MostlyFormatting(text) THEN FALSE
        ELSE CountOf(text, sentence_indicators) > 0

----------------------------------------------------------------------------
(* split_large_chunk, embedding.py lines 184-216.  The loop state is the   *)
(* list of finished sub-chunks and current_chunk; frags and cur_frags      *)
(* record which fragments (indexes into sentences) each of them holds.     *)

SplitInit == [chunks |-> << >>, current_chunk |-> << >>, cur_frags |-> << >>]

\* lines 195-197: add the period back if it was removed by split
RestorePeriod(sentence, sentences) ==
    IF ~EndsWithPeriod(sentence) /\ sentence # sentences[Len(sentences)]
    THEN Concat(sentence, Run(".", 1))
    ELSE sentence

\* one iteration of the loop, lines 190-209, for sentences[k]
SplitStep(s, sentences, k) ==
    LET stripped == Strip(sentences[k])
        sentence == RestorePeriod(stripped, sentences)
        test_chunk == IF s.current_chunk # << >>
                      THEN Concat(Concat(s.current_chunk, Run(" ", 1)), sentence)
                      ELSE sentence
        test_tokens == count_tokens(test_chunk)
    IN  IF stripped = << >> THEN s
        ELSE IF test_tokens <= OPTIMAL_CHUNK_SIZE
        THEN [s EXCEPT !.current_chunk = test_chunk,
                       !.cur_frags = Append(s.cur_frags, k)]
        ELSE [chunks |->
                 IF s.current_chunk # << >>
                    /\ count_tokens(s.current_chunk) >= MIN_CHUNK_SIZE
                 THEN Append(s.chunks, [text |-> Strip(s.current_chunk),
                                        frags |-> s.cur_frags])
                 ELSE s.chunks,
              current_chunk |-> sentence,
              cur_frags |-> << k >>]

RECURSIVE SplitLoop(_, _, _)
SplitLoop(s, sentences, k) ==
    IF k > Len(sentences) THEN s
    ELSE SplitLoop(SplitStep(s, sentences, k), sentences, k + 1)

\* line 199: the current chunk with sentences[k] after it
TestChunk(s, sentences, k) ==
    LET sentence == RestorePeriod(Strip(sentences[k]), sentences)
    IN  IF s.current_chunk # << >>
        THEN Concat(Concat(s.current_chunk, Run(" ", 1)), sentence)
        ELSE sentence

\* SplitFinal without lines 212-214: no final chunk
SplitFinal_Never(s) == s.chunks

\* SplitFinal without the MIN_CHUNK_SIZE test of line 212
SplitFinal_Always(s) ==
    IF s.current_chunk # << >>
    THEN Append(s.chunks, [text |-> Strip(s.current_chunk), frags |-> s.cur_frags])
    ELSE s.chunks

\* lines 211-216: add final chunk
SplitFinal(s) ==
    IF s.current_chunk # << >> /\ count_tokens(s.current_chunk) >= MIN_CHUNK_SIZE
    THEN Append(s.chunks, [text |-> Strip(s.current_chunk), frags |-> s.cur_frags])
    ELSE s.chunks

split_large_chunk(text) ==
    LET sentences == SplitSentences(text)
    IN  SplitFinal(SplitLoop(SplitInit, sentences, 1))

\* the texts one iteration hands to count_tokens: test_chunk (line 200) and,
\* when test_chunk is over the budget, current_chunk (line 206)
SplitStepTokenized(s, sentences, k) ==
    LET stripped == Strip(sentences[k])
        sentence == RestorePeriod(stripped, sentences)
        test_chunk == IF s.current_chunk # << >>
                      THEN Concat(Concat(s.current_chunk, Run(" ", 1)), sentence)
                      ELSE sentence
    IN  IF stripped = << >> THEN {}
        ELSE {test_chunk}
             \cup (IF count_tokens(test_chunk) > OPTIMAL_CHUNK_SIZE
                      /\ s.current_chunk # << >>
                   THEN {s.current_chunk} ELSE {})

\* the texts the loop and the final test of line 212 hand to count_tokens
RECURSIVE SplitLoopTokenized(_, _, _)
SplitLoopTokenized(s, sentences, k) ==
    IF k > Len(sentences)
    THEN (IF s.current_chunk # << >> THEN {s.current_chunk} ELSE {})
    ELSE SplitStepTokenized(s, sentences, k)
         \cup SplitLoopTokenized(SplitStep(s, sentences, k), sentences, k + 1)

\* every text split_large_chunk(text) hands to count_tokens
SplitTokenized(text) == SplitLoopTokenized(SplitInit, SplitSentences(text), 1)

----------------------------------------------------------------------------
(* merge_small_chunks, embedding.py lines 94-182.                          *)
(*                                                                         *)
(* An emitted chunk is a record: text is the chunk object's text, kind     *)
(* tells which statement appended it, src lists the input positions whose  *)
(* text it was built from, frags the sentence fragments of a split         *)
(* sub-chunk and acc the token count the code had for it when it appended  *)
(* it (chunk_tokens, current_token_count, or the splitter's count).  The   *)
(* loop state m carries the three locals of the function   *)
(* and, as history, buf_src (the input positions concatenated in           *)
(* current_merged_content), interrupted (the positions that were in a      *)
(* buffer below MIN_CHUNK_SIZE when a standalone or oversized chunk was    *)
(* processed) and split_calls (the positions handed to split_large_chunk). *)

\* type('Chunk', (), {'text': current_merged_content.strip()})()
MergedChunk(m) ==
    [text |-> Strip(m.current_merged_content), kind |-> "merged",
     src |-> m.buf_src, frags |-> << >>, acc |-> m.current_token_count]

\* `if current_merged_content and current_token_count >= MIN_CHUNK_SIZE`
BufferLargeEnough(m) ==
    m.current_merged_content # << >> /\ m.current_token_count >= MIN_CHUNK_SIZE

Interrupted(m) ==
    IF m.current_token_count < MIN_CHUNK_SIZE
    THEN m.interrupted \cup {m.buf_src[j] : j \in 1..Len(m.buf_src)}
    ELSE m.interrupted

\* StandaloneStep without the reset of lines 132-133
StandaloneStep_NoReset(m, k, chunk) ==
    [m EXCEPT
       !.optimized_chunks =
           (IF BufferLargeEnough(m) THEN Append(@, MergedChunk(m)) ELSE @)
           \o << [text |-> chunk.text, kind |-> "original",
                  src |-> << k >>, frags |-> << >>,
                  acc |-> count_tokens(chunk.text)] >>,
       !.interrupted = Interrupted(m)]

\* StandaloneStep without the reset of line 133
StandaloneStep_KeepCount(m, k, chunk) ==
    [m EXCEPT
       !.optimized_chunks =
           (IF BufferLargeEnough(m) THEN Append(@, MergedChunk(m)) ELSE @)
           \o << [text |-> chunk.text, kind |-> "original",
                  src |-> << k >>, frags |-> << >>,
                  acc |-> count_tokens(chunk.text)] >>,
       !.current_merged_content = << >>,
       !.buf_src = << >>,
       !.interrupted = Interrupted(m)]

\* StandaloneStep appending the chunk before the previously merged content
StandaloneStep_ChunkFirst(m, k, chunk) ==
    [m EXCEPT
       !.optimized_chunks =
           Append(@, [text |-> chunk.text, kind |-> "original",
                      src |-> << k >>, frags |-> << >>,
                      acc |-> count_tokens(chunk.text)])
           \o (IF BufferLargeEnough(m) THEN << MergedChunk(m) >> ELSE << >>),
       !.current_merged_content = << >>,
       !.current_token_count = 0,
       !.buf_src = << >>,
       !.interrupted = Interrupted(m)]

\* StandaloneStep saving a buffer of any size, without the test of line 119
StandaloneStep_FlushAny(m, k, chunk) ==
    [m EXCEPT
       !.optimized_chunks =
           (IF m.current_merged_content # << >> THEN Append(@, MergedChunk(m)) ELSE @)
           \o << [text |-> chunk.text, kind |-> "original",
                  src |-> << k >>, frags |-> << >>,
                  acc |-> count_tokens(chunk.text)] >>,
       !.current_merged_content = << >>,
       !.current_token_count = 0,
       !.buf_src = << >>,
       !.interrupted = Interrupted(m)]

\* lines 117-133: the chunk is large enough on its own
StandaloneStep(m, k, chunk) ==
    [m EXCEPT
       !.optimized_chunks =
           (IF BufferLargeEnough(m) THEN Append(@, MergedChunk(m)) ELSE @)
           \o << [text |-> chunk.text, kind |-> "original",
                  src |-> << k >>, frags |-> << >>,
                  acc |-> count_tokens(chunk.text)] >>,
       !.current_merged_content = << >>,
       !.current_token_count = 0,
       !.buf_src = << >>,
       !.interrupted = Interrupted(m)]

\* UndersizedStep without the flush of lines 145-154
UndersizedStep_NoFlush(m, k, chunk) ==
    [m EXCEPT !.current_merged_content =
                  IF @ # << >>
                  THEN Concat(Concat(@, Run(" ", 1)), chunk.text)
                  ELSE chunk.text,
              !.current_token_count = @ + count_tokens(chunk.text),
              !.buf_src = Append(@, k)]

\* UndersizedStep joining the texts without the space of line 139
UndersizedStep_NoSpace(m, k, chunk) ==
    LET content == Concat(m.current_merged_content, chunk.text)
        added == [m EXCEPT !.current_merged_content = content,
                           !.current_token_count = @ + count_tokens(chunk.text),
                           !.buf_src = Append(@, k)]
    IN  IF added.current_token_count >= OPTIMAL_CHUNK_SIZE
        THEN [added EXCEPT !.optimized_chunks = Append(@, MergedChunk(added)),
                           !.current_merged_content = << >>,
                           !.current_token_count = 0,
                           !.buf_src = << >>]
        ELSE added

\* UndersizedStep flushing at MIN_CHUNK_SIZE instead of OPTIMAL_CHUNK_SIZE
UndersizedStep_FlushAtMin(m, k, chunk) ==
    LET content == IF m.current_merged_content # << >>
                   THEN Concat(Concat(m.current_merged_content, Run(" ", 1)), chunk.text)
                   ELSE chunk.text
        added == [m EXCEPT !.current_merged_content = content,
                           !.current_token_count = @ + count_tokens(chunk.text),
                           !.buf_src = Append(@, k)]
    IN  IF added.current_token_count >= MIN_CHUNK_SIZE
        THEN [added EXCEPT !.optimized_chunks = Append(@, MergedChunk(added)),
                           !.current_merged_content = << >>,
                           !.current_token_count = 0,
                           !.buf_src = << >>]
        ELSE added

\* lines 136-154: the chunk is too small, merge it
UndersizedStep(m, k, chunk) ==
    LET content == IF m.current_merged_content # << >>
                   THEN Concat(Concat(m.current_merged_content, Run(" ", 1)), chunk.text)
                   ELSE chunk.text
        added == [m EXCEPT !.current_merged_content = content,
                           !.current_token_count = @ + count_tokens(chunk.text),
                           !.buf_src = Append(@, k)]
    IN  IF added.current_token_count >= OPTIMAL_CHUNK_SIZE
        THEN [added EXCEPT !.optimized_chunks = Append(@, MergedChunk(added)),
                           !.current_merged_content = << >>,
                           !.current_token_count = 0,
                           !.buf_src = << >>]
        ELSE added

\* lines 159-166: save any previously merged content first
FlushBeforeSplit(m) ==
    IF BufferLargeEnough(m)
    THEN [m EXCEPT !.optimized_chunks = Append(@, MergedChunk(m)),
                   !.current_merged_content = << >>,
                   !.current_token_count = 0,
                   !.buf_src = << >>]
    ELSE m

\* lines 157-171: the chunk is too large, split it
OversizedStep(m, k, chunk) ==
    LET flushed == FlushBeforeSplit(m)
        split_chunks == split_large_chunk(chunk.text)
    IN  [flushed EXCEPT
           !.optimized_chunks =
               @ \o [j \in 1..Len(split_chunks) |->
                        [text |-> split_chunks[j].text, kind |-> "split",
                         src |-> << k >>, frags |-> split_chunks[j].frags,
                         acc |-> count_tokens(split_chunks[j].text)]],
           !.interrupted = Interrupted(m),
           !.split_calls = @ \cup {k}]

\* FinalFlush without the MIN_CHUNK_SIZE test
FinalFlush_Always(m) ==
    IF m.current_merged_content # << >>
    THEN [m EXCEPT !.optimized_chunks = Append(@, MergedChunk(m))]
    ELSE m

\* lines 173-179: handle any remaining merged content
FinalFlush(m) ==
    IF BufferLargeEnough(m)
    THEN [m EXCEPT !.optimized_chunks = Append(@, MergedChunk(m))]
    ELSE m

\* lines 104-106
MergeInit ==
    [optimized_chunks |-> << >>, current_merged_content |-> << >>,
     current_token_count |-> 0, buf_src |-> << >>,
     interrupted |-> {}, split_calls |-> {}]

\* Branch without the upper limit of line 117
Branch_NoUpperLimit(chunk) ==
    LET chunk_tokens == count_tokens(chunk.text)
    IN  IF ~is_content_meaningful(chunk.text) THEN "skip"
        ELSE IF chunk_tokens >= MIN_CHUNK_SIZE THEN "standalone"
        ELSE "undersized"

\* Branch without the filter of lines 112-114
Branch_NoFilter(chunk) ==
    LET chunk_tokens == count_tokens(chunk.text)
    IN  IF chunk_tokens >= MIN_CHUNK_SIZE /\ chunk_tokens <= MAX_CHUNK_SIZE
        THEN "standalone"
        ELSE IF chunk_tokens < MIN_CHUNK_SIZE THEN "undersized"
        ELSE "oversized"

\* Branch with `>` for `>=` at the lower limit of line 117
Branch_StrictMin(chunk) ==
    LET chunk_tokens == count_tokens(chunk.text)
    IN  IF ~is_content_meaningful(chunk.text) THEN "skip"
        ELSE IF chunk_tokens > MIN_CHUNK_SIZE /\ chunk_tokens <= MAX_CHUNK_SIZE
        THEN "standalone"
        ELSE IF chunk_tokens <= MIN_CHUNK_SIZE THEN "undersized"
        ELSE "oversized"

\* the branch lines 112-157 take for a chunk
Branch(chunk) ==
    LET chunk_tokens == count_tokens(chunk.text)
    IN  IF ~is_content_meaningful(chunk.text) THEN "skip"
        ELSE IF chunk_tokens >= MIN_CHUNK_SIZE /\ chunk_tokens <= MAX_CHUNK_SIZE
        THEN "standalone"
        ELSE IF chunk_tokens < MIN_CHUNK_SIZE THEN "undersized"
        ELSE "oversized"

\* one iteration of the loop, lines 108-171, for chunks[k]
MergeStep(m, k, chunk) ==
    CASE Branch(chunk) = "skip"       -> m
      [] Branch(chunk) = "standalone" -> StandaloneStep(m, k, chunk)
      [] Branch(chunk) = "undersized" -> UndersizedStep(m, k, chunk)
      [] Branch(chunk) = "oversized"  -> OversizedStep(m, k, chunk)

RECURSIVE MergeLoop(_, _, _)
MergeLoop(m, chunks_, k) ==
    IF k > Len(chunks_) THEN m
    ELSE MergeLoop(MergeStep(m, k, chunks_[k]), chunks_, k + 1)

\* the list merge_small_chunks returns for chunks_
merge_small_chunks(chunks_) ==
    IF chunks_ = << >> THEN chunks_
    ELSE FinalFlush(MergeLoop(MergeInit, chunks_, 1)).optimized_chunks

----------------------------------------------------------------------------
(* Input texts.  Plain(n) is one sentence of n tokens; Padded(n, k) has n  *)
(* tokens and k blanks inside, which brings a short text to 50 characters. *)

Plain(n) == << <<"x", n - 1>>, <<".", 1>> >>

Padded(n, k) == << <<"x", n - 3>>, <<" ", k>>, <<"x", 1>>, <<".", 1>> >>

\* sentences joined by ". ", the last one keeping its period
TwoSentences(a, b) == << <<"x", a - 1>>, <<".", 1>>, <<" ", 1>>, <<"x", b - 1>>, <<".", 1>> >>

ThreeSentences(a, b, c) ==
    << <<"x", a - 1>>, <<".", 1>>, <<" ", 1>> >> \o TwoSentences(b, c)

U30 == Padded(30, 21)
U45 == Padded(45, 6)
U55 == Plain(55)
U60 == Plain(60)
U99 == Plain(99)
U80 == Plain(80)
\* 50 tokens, the last one a trailing blank
U50sp == << <<"x", 46>>, <<" ", 2>>, <<"x", 1>>, <<".", 1>>, <<" ", 1>> >>
S100 == Plain(100)
S550 == Plain(550)
S800 == Plain(800)
L900 == ThreeSentences(300, 300, 300)
L910 == TwoSentences(50, 860)
\* Scenario D of the specification
TocText ==
    Str(<<"T","a","b","l","e"," ","o","f"," ","C","o","n","t","e","n","t","s","\n",
          "C","h","a","p","t","e","r"," ","1","\n","C","h","a","p","t","e","r"," ","2">>)
\* 120 tokens and no sentence terminator
NoSentence == << <<"x", 120>> >>

Library == {U30, U60, U50sp, S100, S800, L900, L910, TocText, NoSentence}

MaxChunks == 3

Chunk(t) == [text |-> t]

ChunkList(texts) == [k \in 1..Len(texts) |-> Chunk(texts[k])]

ScenarioA == ChunkList(<<U30, U45>>)
ScenarioB == ChunkList(<<U30, U45, S550, U60, L900>>)
ScenarioC == ChunkList(<<U80, U80, U80, U80, U80, U80, U80>>)

\* a standalone segment, two undersized ones that reach MIN_CHUNK_SIZE
\* together, and a standalone segment that interrupts them
FlushThenKeep == ChunkList(<<S100, U60, U60, S800>>)

\* undersized segments that bring the buffer to 511 tokens and then to 610
FullBuffer == ChunkList(<<U99, U99, U99, U99, U60, U55, U99>>)

Inputs ==
    UNION {[1..n -> {Chunk(t) : t \in Library}] : n \in 0..MaxChunks}
    \cup {ScenarioA, ScenarioB, ScenarioC, FlushThenKeep, FullBuffer}

----------------------------------------------------------------------------
(* One call of merge_small_chunks(chunks), one loop iteration per step.    *)
(* At pc = "done" optimized_chunks is the list the call returned.  probe   *)
(* is the text handed to is_content_meaningful when the filter is called   *)
(* on its own (FilterSpec below), with the verdict of the last call.       *)
(* unprocessable is the set of texts on which tokenizer.tokenize raises    *)
(* during the call (part of the environment, empty when the tokenizer      *)
(* works), and raised is the exception that left the call without a        *)
(* return: at pc = "raised" nothing was returned.  runs and frames hold    *)
(* the invocations of merge_small_chunks that run side by side (TwoRunsSpec *)
(* below): for each invocation its argument, its position and what it      *)
(* returned, and for each call frame the locals of lines 104-106.  split   *)
(* is a call of split_large_chunk on its own (SplitSpec below), batch a    *)
(* run of batch_process_books (BatchSpec) and store a call of              *)
(* store_document_and_sections (StoreSpec).                                *)

VARIABLES chunks, pc, i, optimized_chunks, current_merged_content,
          current_token_count, buf_src, interrupted, split_calls, probe,
          unprocessable, raised, runs, frames, split,
          batch, store

vars == <<chunks, pc, i, optimized_chunks, current_merged_content,
          current_token_count, buf_src, interrupted, split_calls, probe,
          unprocessable, raised, runs, frames, split,
          batch, store>>

merge_vars == <<chunks, pc, i, optimized_chunks, current_merged_content,
                current_token_count, buf_src, interrupted, split_calls>>

Locals ==
    [optimized_chunks |-> optimized_chunks,
     current_merged_content |-> current_merged_content,
     current_token_count |-> current_token_count,
     buf_src |-> buf_src, interrupted |-> interrupted, split_calls |-> split_calls]

SetLocals(m) ==
    /\ optimized_chunks' = m.optimized_chunks
    /\ current_merged_content' = m.current_merged_content
    /\ current_token_count' = m.current_token_count
    /\ buf_src' = m.buf_src
    /\ interrupted' = m.interrupted
    /\ split_calls' = m.split_calls

\* no call of split_large_chunk on its own
NoSplit == [pc |-> "idle"]

\* no run of batch_process_books
NoBatch == [pc |-> "idle"]

\* no call of store_document_and_sections
NoStore == [pc |-> "idle"]

NoProbe == [params |-> << >>, text |-> << >>, verdict |-> "unknown", calls |-> 0]

MergeStart ==
    /\ pc = "start"
    /\ i = 1
    /\ optimized_chunks = MergeInit.optimized_chunks
    /\ current_merged_content = MergeInit.current_merged_content
    /\ current_token_count = MergeInit.current_token_count
    /\ buf_src = MergeInit.buf_src
    /\ interrupted = MergeInit.interrupted
    /\ split_calls = MergeInit.split_calls

\* a call with a working tokenizer on segments that all have a text
Init ==
    /\ chunks \in Inputs
    /\ MergeStart
    /\ probe = NoProbe
    /\ unprocessable = {}
    /\ raised = "none"
    /\ runs = << >>
    /\ frames = << >>
    /\ split = NoSplit
    /\ batch = NoBatch
    /\ store = NoStore

\* lines 101-102: `if not chunks: return chunks`
ReturnEmpty ==
    /\ pc = "start" /\ chunks = << >>
    /\ pc' = "done"
    /\ UNCHANGED <<chunks, i, optimized_chunks, current_merged_content,
                   current_token_count, buf_src, interrupted, split_calls, probe,
                   unprocessable, raised, runs, frames, split, batch, store>>

\* lines 104-108: the locals are set and the loop is entered
Enter ==
    /\ pc = "start" /\ chunks # << >>
    /\ pc' = "loop"
    /\ UNCHANGED <<chunks, i, optimized_chunks, current_merged_content,
                   current_token_count, buf_src, interrupted, split_calls, probe,
                   unprocessable, raised, runs, frames, split, batch, store>>

\* getattr: the segment has a text attribute
HasText(chunk) == "text" \in DOMAIN chunk

\* a tokenizer that processes every text
CountFails_Never(text) == FALSE

\* line 57: tokenizer.tokenize(text) raises, and count_tokens with it
CountFails(text) == text \in unprocessable

\* count_tokens raises at line 200, 206 or 212 of split_large_chunk(text)
SplitFails(text) == \E t \in SplitTokenized(text) : CountFails(t)

\* lines 108-109 passed: chunk.text was read and counted
InLoop(branch) ==
    /\ pc = "loop" /\ i <= Len(chunks)
    /\ HasText(chunks[i])
    /\ ~CountFails(chunks[i].text)
    /\ Branch(chunks[i]) = branch

\* SkipMeaningless with a reset of the merger
SkipMeaningless_Reset ==
    /\ InLoop("skip")
    /\ i' = i + 1
    /\ current_merged_content' = << >>
    /\ current_token_count' = 0
    /\ buf_src' = << >>
    /\ UNCHANGED <<chunks, pc, optimized_chunks, interrupted, split_calls, probe,
                   unprocessable, raised, runs, frames, split, batch, store>>

\* lines 112-114: skip meaningless content
SkipMeaningless ==
    /\ InLoop("skip")
    /\ i' = i + 1
    /\ UNCHANGED <<chunks, pc, optimized_chunks, current_merged_content,
                   current_token_count, buf_src, interrupted, split_calls, probe,
                   unprocessable, raised, runs, frames, split, batch, store>>

KeepStandalone ==
    /\ InLoop("standalone")
    /\ SetLocals(StandaloneStep(Locals, i, chunks[i]))
    /\ i' = i + 1
    /\ UNCHANGED <<chunks, pc, probe, unprocessable, raised, runs, frames, split, batch, store>>

MergeUndersized ==
    /\ InLoop("undersized")
    /\ SetLocals(UndersizedStep(Locals, i, chunks[i]))
    /\ i' = i + 1
    /\ UNCHANGED <<chunks, pc, probe, unprocessable, raised, runs, frames, split, batch, store>>

SplitOversized ==
    /\ InLoop("oversized")
    /\ ~SplitFails(chunks[i].text)
    /\ SetLocals(OversizedStep(Locals, i, chunks[i]))
    /\ i' = i + 1
    /\ UNCHANGED <<chunks, pc, probe, unprocessable, raised, runs, frames, split, batch, store>>

\* lines 173-182: the loop is over
Finish ==
    /\ pc = "loop" /\ i > Len(chunks)
    /\ SetLocals(FinalFlush(Locals))
    /\ pc' = "done"
    /\ UNCHANGED <<chunks, i, probe, unprocessable, raised, runs, frames, split, batch, store>>

Next ==
    \/ ReturnEmpty
    \/ Enter
    \/ SkipMeaningless
    \/ KeepStandalone
    \/ MergeUndersized
    \/ SplitOversized
    \/ Finish

Spec == Init /\ [][Next]_vars

----------------------------------------------------------------------------
(* Calls that may fail: some segment may lack the text attribute and the   *)
(* tokenizer may be unable to process one of the texts it is given.  No    *)
(* statement of merge_small_chunks, split_large_chunk or count_tokens      *)
(* catches an exception, so the first one raised ends the call.            *)

\* a segment object without a text attribute
NoTextSegment == [meta |-> "heading"]

\* one sentence of 900 tokens
G900 == Plain(900)

FaultLibrary == {U60, S100, L900, G900, TocText, NoSentence}

FaultSegments == {Chunk(t) : t \in FaultLibrary} \cup {NoTextSegment}

FaultInputs == UNION {[1..n -> FaultSegments] : n \in 0..MaxChunks}

\* the texts a call on chunks_ may hand to the tokenizer
Tokenized(chunks_) ==
    UNION {{chunks_[p].text}
           \cup (IF count_tokens(chunks_[p].text) > MAX_CHUNK_SIZE
                 THEN SplitTokenized(chunks_[p].text) ELSE {}) :
           p \in {q \in 1..Len(chunks_) : HasText(chunks_[q])}}

FaultInit ==
    /\ chunks \in FaultInputs
    /\ MergeStart
    /\ probe = NoProbe
    /\ unprocessable \in {{}} \cup {{t} : t \in Tokenized(chunks)}
    /\ raised = "none"
    /\ runs = << >>
    /\ frames = << >>
    /\ split = NoSplit
    /\ batch = NoBatch
    /\ store = NoStore

\* merge_small_chunks passing over a segment without text
RaiseMalformed_Skip ==
    /\ pc = "loop" /\ i <= Len(chunks)
    /\ ~HasText(chunks[i])
    /\ i' = i + 1
    /\ UNCHANGED <<chunks, pc, optimized_chunks, current_merged_content,
                   current_token_count, buf_src, interrupted, split_calls, probe,
                   unprocessable, raised, runs, frames, split, batch, store>>

\* line 109: chunk.text of a segment without text raises AttributeError
RaiseMalformed ==
    /\ pc = "loop" /\ i <= Len(chunks)
    /\ ~HasText(chunks[i])
    /\ pc' = "raised"
    /\ raised' = "MalformedInput"
    /\ UNCHANGED <<chunks, i, optimized_chunks, current_merged_content,
                   current_token_count, buf_src, interrupted, split_calls, probe,
                   unprocessable, runs, frames, split, batch, store>>

\* line 109: count_tokens(chunk.text) raises
RaiseTokenization ==
    /\ pc = "loop" /\ i <= Len(chunks)
    /\ HasText(chunks[i])
    /\ CountFails(chunks[i].text)
    /\ pc' = "raised"
    /\ raised' = "TokenizationFailure"
    /\ UNCHANGED <<chunks, i, optimized_chunks, current_merged_content,
                   current_token_count, buf_src, interrupted, split_calls, probe,
                   unprocessable, runs, frames, split, batch, store>>

\* line 169: split_large_chunk raises, after the flush of lines 159-166
RaiseInSplit ==
    /\ InLoop("oversized")
    /\ SplitFails(chunks[i].text)
    /\ SetLocals(FlushBeforeSplit(Locals))
    /\ pc' = "raised"
    /\ raised' = "TokenizationFailure"
    /\ UNCHANGED <<chunks, i, probe, unprocessable, runs, frames, split, batch, store>>

FaultNext ==
    \/ Next
    \/ RaiseMalformed
    \/ RaiseTokenization
    \/ RaiseInSplit

FaultSpec == FaultInit /\ [][FaultNext]_vars

----------------------------------------------------------------------------
(* Two invocations of merge_small_chunks on two documents, interleaved     *)
(* statement by statement in any order (one after the other included).     *)
(* optimized_chunks, current_merged_content and current_token_count are    *)
(* assigned inside the function without a global declaration, so they are  *)
(* names of the call frame: frames maps a frame to its locals, and an      *)
(* invocation reads and writes the locals of its own frame.                *)

Invocations == {1, 2}

MaxRunChunks == 2

RunLibrary == {U60, S100, L900}

Documents == UNION {[1..n -> {Chunk(t) : t \in RunLibrary}] : n \in 0..MaxRunChunks}

\* both invocations on one frame
FrameOf_Shared(r) == 1

\* the frame of invocation r
FrameOf(r) == r

NewRun(d) ==
    [chunks |-> d, pc |-> "start", i |-> 1, result |-> << >>, overlapped |-> FALSE]

TwoRunsInit ==
    /\ chunks = << >>
    /\ MergeStart
    /\ probe = NoProbe
    /\ unprocessable = {}
    /\ raised = "none"
    /\ runs \in [Invocations -> {NewRun(d) : d \in Documents}]
    /\ frames = << >>
    /\ split = NoSplit
    /\ batch = NoBatch
    /\ store = NoStore

\* lines 101-106: return the empty input, or bind the locals and enter the
\* loop; overlapped records that another invocation was inside its loop
RunEnter(r) ==
    /\ runs[r].pc = "start"
    /\ IF runs[r].chunks = << >>
       THEN /\ runs' = [runs EXCEPT ![r].pc = "done", ![r].result = runs[r].chunks]
            /\ UNCHANGED frames
       ELSE /\ runs' = [runs EXCEPT
                          ![r].pc = "loop",
                          ![r].overlapped =
                              \E q \in Invocations \ {r} : runs[q].pc = "loop"]
            /\ frames' = [f \in DOMAIN frames \cup {FrameOf(r)} |->
                             IF f = FrameOf(r) THEN MergeInit ELSE frames[f]]
    /\ UNCHANGED <<merge_vars, probe, unprocessable, raised, split, batch, store>>

\* lines 108-171: one iteration of the loop
RunIterate(r) ==
    /\ runs[r].pc = "loop"
    /\ runs[r].i <= Len(runs[r].chunks)
    /\ frames' = [frames EXCEPT
                     ![FrameOf(r)] = MergeStep(@, runs[r].i, runs[r].chunks[runs[r].i])]
    /\ runs' = [runs EXCEPT ![r].i = @ + 1]
    /\ UNCHANGED <<merge_vars, probe, unprocessable, raised, split, batch, store>>

\* lines 173-182: the final flush and the return of optimized_chunks
RunReturn(r) ==
    /\ runs[r].pc = "loop"
    /\ runs[r].i > Len(runs[r].chunks)
    /\ frames' = [frames EXCEPT ![FrameOf(r)] = FinalFlush(@)]
    /\ runs' = [runs EXCEPT
                   ![r].pc = "done",
                   ![r].result = FinalFlush(frames[FrameOf(r)]).optimized_chunks]
    /\ UNCHANGED <<merge_vars, probe, unprocessable, raised, split, batch, store>>

TwoRunsNext ==
    \E r \in Invocations :
        \/ RunEnter(r)
        \/ RunIterate(r)
        \/ RunReturn(r)

TwoRunsSpec == TwoRunsInit /\ [][TwoRunsNext]_vars

----------------------------------------------------------------------------
(* One call of split_large_chunk(text), one loop iteration per step.  The  *)
(* texts are the ones merge_small_chunks hands to it: meaningful and above *)
(* MAX_CHUNK_SIZE.  A text is made of sentences of the given token counts, *)
(* joined by ". ", and ends without a period, with a period, or with a     *)
(* period and a blank; or it is a dotted line, a heading followed by a     *)
(* leader of ". " pairs, as in a list of figures.  dropped records the     *)
(* fragments that were in a current_chunk below MIN_CHUNK_SIZE when line   *)
(* 209 replaced it, restored the fragments to which line 197 added a       *)
(* period.                                                                 *)

SentenceSizes == {50, 99, 100, 300, 413, 414, 513}

MaxSentences == 3

Endings == {"none", "period", "period and blank"}

\* sentences 1..n of the given sizes, each but the last followed by ". "
RECURSIVE SentencesText(_, _, _)
SentencesText(sizes, n, ending) ==
    IF n = 0 THEN << >>
    ELSE SentencesText(sizes, n - 1, ending)
         \o (IF n < Len(sizes)
             THEN << <<"x", sizes[n] - 1>>, <<".", 1>>, <<" ", 1>> >>
             ELSE CASE ending = "none"   -> << <<"x", sizes[n]>> >>
                    [] ending = "period" -> << <<"x", sizes[n] - 1>>, <<".", 1>> >>
                    [] OTHER -> << <<"x", sizes[n] - 1>>, <<".", 1>>, <<" ", 1>> >>)

SplitParams ==
    [sizes : UNION {[1..n -> SentenceSizes] : n \in 1..MaxSentences},
     ending : Endings]

HeadingSizes == {98, 99}

LeaderDots == 705

\* a heading of `heading` tokens followed by `dots` times ". "
DottedLine(heading, dots) ==
    << <<"x", heading>> >>
    \o [k \in 1..(2 * dots) |-> IF k % 2 = 1 THEN <<".", 1>> ELSE <<" ", 1>>]

DottedLines == {DottedLine(h, LeaderDots) : h \in HeadingSizes}

LargeTexts ==
    {t \in {SentencesText(q.sizes, Len(q.sizes), q.ending) : q \in SplitParams}
            \cup DottedLines :
        is_content_meaningful(t) /\ count_tokens(t) > MAX_CHUNK_SIZE}

SplitCalls ==
    {[text |-> t, pc |-> "call", sentences |-> << >>, k |-> 1,
      chunks |-> << >>, current_chunk |-> << >>, cur_frags |-> << >>,
      dropped |-> {}, restored |-> {}, result |-> << >>] : t \in LargeTexts}

SplitterInit ==
    /\ chunks = << >>
    /\ MergeStart
    /\ probe = NoProbe
    /\ unprocessable = {}
    /\ raised = "none"
    /\ runs = << >>
    /\ frames = << >>
    /\ split \in SplitCalls
    /\ batch = NoBatch
    /\ store = NoStore

\* the loop state of the call
SplitLocals ==
    [chunks |-> split.chunks, current_chunk |-> split.current_chunk,
     cur_frags |-> split.cur_frags]

\* line 196: the period is added to sentences[k]
Restores(sentences, k) ==
    RestorePeriod(Strip(sentences[k]), sentences) # Strip(sentences[k])

SetSplitLocals(s) ==
    [split EXCEPT !.chunks = s.chunks, !.current_chunk = s.current_chunk,
                  !.cur_frags = s.cur_frags, !.k = @ + 1,
                  !.restored = IF Strip(split.sentences[split.k]) # << >>
                                  /\ Restores(split.sentences, split.k)
                               THEN @ \cup {split.k} ELSE @]

\* lines 186-188
SplitCall ==
    /\ split.pc = "call"
    /\ split' = [split EXCEPT !.pc = "loop", !.sentences = SplitSentences(split.text)]
    /\ UNCHANGED <<merge_vars, probe, unprocessable, raised, runs, frames, batch, store>>

InSplitLoop == split.pc = "loop" /\ split.k <= Len(split.sentences)

\* lines 191-193: an empty fragment is passed over
SkipEmptyFragment ==
    /\ InSplitLoop
    /\ Strip(split.sentences[split.k]) = << >>
    /\ split' = SetSplitLocals(SplitStep(SplitLocals, split.sentences, split.k))
    /\ UNCHANGED <<merge_vars, probe, unprocessable, raised, runs, frames, batch, store>>

\* lines 202-203: the fragment fits
ExtendCurrent ==
    /\ InSplitLoop
    /\ Strip(split.sentences[split.k]) # << >>
    /\ count_tokens(TestChunk(SplitLocals, split.sentences, split.k))
          <= OPTIMAL_CHUNK_SIZE
    /\ split' = SetSplitLocals(SplitStep(SplitLocals, split.sentences, split.k))
    /\ UNCHANGED <<merge_vars, probe, unprocessable, raised, runs, frames, batch, store>>

\* lines 204-209: the fragment does not fit; the current chunk is saved if it
\* has MIN_CHUNK_SIZE tokens and replaced by the fragment
StartNewChunk ==
    /\ InSplitLoop
    /\ Strip(split.sentences[split.k]) # << >>
    /\ count_tokens(TestChunk(SplitLocals, split.sentences, split.k))
          > OPTIMAL_CHUNK_SIZE
    /\ split' = [SetSplitLocals(SplitStep(SplitLocals, split.sentences, split.k))
                   EXCEPT !.dropped =
                       IF count_tokens(split.current_chunk) < MIN_CHUNK_SIZE
                       THEN @ \cup {split.cur_frags[j] : j \in 1..Len(split.cur_frags)}
                       ELSE @]
    /\ UNCHANGED <<merge_vars, probe, unprocessable, raised, runs, frames, batch, store>>

\* lines 211-216: the final chunk and the return
SplitReturn ==
    /\ split.pc = "loop" /\ split.k > Len(split.sentences)
    /\ split' = [split EXCEPT !.pc = "done", !.result = SplitFinal(SplitLocals)]
    /\ UNCHANGED <<merge_vars, probe, unprocessable, raised, runs, frames, batch, store>>

SplitNext ==
    \/ SplitCall
    \/ SkipEmptyFragment
    \/ ExtendCurrent
    \/ StartNewChunk
    \/ SplitReturn

SplitSpec == SplitterInit /\ [][SplitNext]_vars

----------------------------------------------------------------------------
(* Properties of merge_small_chunks.                                       *)

Done == pc = "done"

Positions(seq) == {seq[j] : j \in 1..Len(seq)}

Emitted == 1..Len(optimized_chunks)

\* the input positions that contributed text to some emitted chunk
Contributors == UNION {Positions(optimized_chunks[k].src) : k \in Emitted}

Survives(p) == is_content_meaningful(chunks[p].text)

Tokens(p) == count_tokens(chunks[p].text)

\* C1: order preservation.  If chunk a precedes chunk b in the output, every
\* input segment that contributed to a precedes every input segment that
\* contributed to b (two sub-chunks of one split segment share their segment).
C1_OrderPreserved ==
    \A a, b \in Emitted :
        a < b =>
            \A p \in Positions(optimized_chunks[a].src) :
                \A q \in Positions(optimized_chunks[b].src) :
                    \/ p < q
                    \/ /\ p = q
                       /\ optimized_chunks[a].kind = "split"
                       /\ optimized_chunks[b].kind = "split"

\* C2: interrupted short runs are lost.  A segment that was in a buffer below
\* MIN_CHUNK_SIZE when a standalone-sized or an oversized segment was processed
\* contributes to no chunk of the final output.
C2_InterruptedRunsLost ==
    Done => interrupted \cap Contributors = {}

\* C3: budget lower bound.  Every chunk of the output has a token count,
\* recomputed from its text, of at least MIN_CHUNK_SIZE.
C3_LowerBound ==
    \A k \in Emitted : count_tokens(optimized_chunks[k].text) >= MIN_CHUNK_SIZE

\* C4: budget upper bound.  Every standalone chunk and every merged chunk of the
\* output has a token count of at most MAX_CHUNK_SIZE.
C4_UpperBound ==
    \A k \in Emitted :
        optimized_chunks[k].kind \in {"original", "merged"} =>
            /\ optimized_chunks[k].acc <= MAX_CHUNK_SIZE
            /\ count_tokens(optimized_chunks[k].text) <= MAX_CHUNK_SIZE

C4_Witness ==
    /\ Done
    /\ \E k \in Emitted : optimized_chunks[k].kind = "merged"
    /\ \E k \in Emitted :
          /\ optimized_chunks[k].kind = "original"
          /\ count_tokens(optimized_chunks[k].text) = MAX_CHUNK_SIZE

AlreadyOptimal ==
    \A p \in 1..Len(chunks) :
        /\ Survives(p)
        /\ Tokens(p) >= MIN_CHUNK_SIZE
        /\ Tokens(p) <= MAX_CHUNK_SIZE

\* the chunk objects of an output list, as an input list
AsInput(out) == [k \in 1..Len(out) |-> Chunk(out[k].text)]

\* C6: idempotence on already-optimal input.  If every segment passes the filter
\* and has MIN <= token count <= MAX, the call returns the input sequence itself:
\* the same segments in the same order, none merged, none split; and the call on
\* its own output returns that output again.
C6_Idempotent ==
    (Done /\ AlreadyOptimal) =>
        /\ Len(optimized_chunks) = Len(chunks)
        /\ \A k \in Emitted :
              optimized_chunks[k] =
                  [text |-> chunks[k].text, kind |-> "original",
                   src |-> << k >>, frags |-> << >>, acc |-> Tokens(k)]
        /\ merge_small_chunks(AsInput(optimized_chunks)) = optimized_chunks

C6_Witness ==
    /\ Done
    /\ AlreadyOptimal
    /\ Len(chunks) >= 3
    /\ \E p, q \in 1..Len(chunks) : chunks[p] # chunks[q]

\* C7: end-of-stream rule.  When the loop is over the buffer is appended as one
\* final chunk if and only if its accumulated token count is >= MIN_CHUNK_SIZE,
\* otherwise nothing is appended; two meaningful segments of 30 and 45 tokens
\* give the empty output.
C7_EndOfStream ==
    /\ [][(pc = "loop" /\ pc' = "done") =>
             optimized_chunks' =
                 IF current_token_count >= MIN_CHUNK_SIZE
                 THEN Append(optimized_chunks,
                             [text |-> Strip(current_merged_content),
                              kind |-> "merged", src |-> buf_src, frags |-> << >>,
                              acc |-> current_token_count])
                 ELSE optimized_chunks]_vars
    /\ []((Done /\ chunks = ScenarioA) => optimized_chunks = << >>)

C7_Witness ==
    /\ Done
    /\ current_token_count >= MIN_CHUNK_SIZE
    /\ optimized_chunks[Len(optimized_chunks)].src = buf_src

\* C8: Scenario B.  For token counts [30, 45, 550, 60, 900] the output is the
\* 550-token segment followed by the sub-chunks split_large_chunk returns for
\* the 900-token segment, and the 30-, 45- and 60-token segments contribute to
\* no output chunk.
C8_ScenarioB ==
    (Done /\ chunks = ScenarioB) =>
        LET split_chunks == split_large_chunk(L900)
        IN  /\ Len(split_chunks) = 3
            /\ Len(optimized_chunks) = 1 + Len(split_chunks)
            /\ optimized_chunks[1].text = S550
            /\ optimized_chunks[1].kind = "original"
            /\ optimized_chunks[1].src = << 3 >>
            /\ \A j \in 1..Len(split_chunks) :
                  /\ optimized_chunks[1 + j].text = split_chunks[j].text
                  /\ optimized_chunks[1 + j].kind = "split"
                  /\ optimized_chunks[1 + j].src = << 5 >>
            /\ Contributors \cap {1, 2, 4} = {}

C8_Witness ==
    /\ Done
    /\ chunks = ScenarioB
    /\ [k \in 1..Len(chunks) |-> Tokens(k)] = <<30, 45, 550, 60, 900>>
    /\ \A p \in 1..Len(chunks) : Survives(p)

\* the text of chunks[1..n] joined by single spaces
RECURSIVE Joined(_, _)
Joined(chunks_, n) ==
    IF n = 1 THEN chunks_[1].text
    ELSE Concat(Concat(Joined(chunks_, n - 1), Run(" ", 1)), chunks_[n].text)

\* C9: Scenario C.  For seven meaningful segments of 80 tokens the buffer grows
\* 80, 160, ..., 480 without any flush, the flush happens when the seventh
\* segment brings it to 560, and the output is one merged chunk made of all
\* seven segments in order, with an empty buffer at the end of the stream.
C9_ScenarioC ==
    (chunks = ScenarioC /\ pc # "start") =>
        IF i <= 7
        THEN /\ optimized_chunks = << >>
             /\ current_token_count = 80 * (i - 1)
             /\ buf_src = [k \in 1..(i - 1) |-> k]
        ELSE /\ optimized_chunks =
                    << [text |-> Joined(chunks, 7), kind |-> "merged",
                        src |-> <<1, 2, 3, 4, 5, 6, 7>>, frags |-> << >>,
                        acc |-> 560] >>
             /\ current_token_count = 0
             /\ current_merged_content = << >>
             /\ buf_src = << >>

C9_Witness ==
    /\ Done
    /\ chunks = ScenarioC
    /\ \A p \in 1..Len(chunks) : Survives(p) /\ Tokens(p) = 80
    /\ Len(optimized_chunks) = 1

NoOversized == \A p \in 1..Len(chunks) : Tokens(p) <= MAX_CHUNK_SIZE

\* C11: chunk-count reduction.  For an input without a segment above
\* MAX_CHUNK_SIZE the output is never longer than the input, and it is strictly
\* shorter when some segment is rejected by the filter or is below
\* MIN_CHUNK_SIZE.
C11_FewerChunks ==
    (Done /\ NoOversized) =>
        /\ Len(optimized_chunks) <= Len(chunks)
        /\ (\E p \in 1..Len(chunks) : ~Survives(p) \/ Tokens(p) < MIN_CHUNK_SIZE)
              => Len(optimized_chunks) < Len(chunks)

\* two undersized segments merged into one chunk next to a standalone one
C11_Witness ==
    /\ Done
    /\ NoOversized
    /\ Len(chunks) = 3
    /\ Len(optimized_chunks) = 2
    /\ \E k \in Emitted : optimized_chunks[k].kind = "merged"
    /\ \E k \in Emitted : optimized_chunks[k].kind = "original"

\* the texts count_tokens is given while segment p is processed: its text at
\* line 109 and, for a meaningful segment above MAX_CHUNK_SIZE, the texts of
\* split_large_chunk
TokenizedFor(p) ==
    {chunks[p].text}
    \cup (IF Survives(p) /\ Tokens(p) > MAX_CHUNK_SIZE
          THEN SplitTokenized(chunks[p].text) ELSE {})

\* C12: a tokenization failure is fatal.  When count_tokens fails for a text of
\* the segment being processed (its own text, or a text inside
\* split_large_chunk) the call ends with that failure: the segment is neither
\* skipped nor added to the buffer, nothing follows the failure (no retry, no
\* return), and a call that returns has met no failure.
C12_TokenizationFatal ==
    /\ [][(/\ pc = "loop" /\ i <= Len(chunks)
           /\ HasText(chunks[i])
           /\ TokenizedFor(i) \cap unprocessable # {})
          => /\ pc' = "raised"
             /\ raised' = "TokenizationFailure"
             /\ i' = i
             /\ i \notin Positions(buf_src')]_vars
    /\ [][pc # "raised"]_vars
    /\ [](Done => \A p \in 1..Len(chunks) :
                     HasText(chunks[p]) => TokenizedFor(p) \cap unprocessable = {})

\* a failure inside split_large_chunk, after a chunk was already appended
C12_Witness ==
    /\ pc = "raised"
    /\ raised = "TokenizationFailure"
    /\ optimized_chunks # << >>
    /\ chunks[i].text \notin unprocessable
    /\ i < Len(chunks)

\* C13: malformed input is fatal.  When the loop reaches a segment without a
\* text attribute the call ends there with that failure and its locals as they
\* were; the segment is not skipped, no later segment is processed and no
\* result is returned.
C13_MalformedFatal ==
    /\ [][(pc = "loop" /\ i <= Len(chunks) /\ ~HasText(chunks[i]))
          => /\ pc' = "raised"
             /\ raised' = "MalformedInput"
             /\ UNCHANGED <<i, optimized_chunks, current_merged_content,
                            current_token_count, buf_src, batch, store>>]_vars
    /\ [][raised # "MalformedInput"]_vars
    /\ [](\A p \in 1..Len(chunks) :
              ~HasText(chunks[p]) =>
                  /\ i <= p
                  /\ ~Done
                  /\ \A q \in Contributors \cup Positions(buf_src) \cup split_calls : q < p)

\* the call failed at its second segment, after appending a chunk and with a
\* standalone-sized segment still to come
C13_Witness ==
    /\ pc = "raised"
    /\ raised = "MalformedInput"
    /\ i = 2
    /\ optimized_chunks # << >>
    /\ Len(chunks) = 3
    /\ HasText(chunks[3])
    /\ Branch(chunks[3]) = "standalone"

\* the tokenizer works and every segment has a text
Sound == unprocessable = {} /\ \A p \in 1..Len(chunks) : HasText(chunks[p])

AllRejected == \A p \in 1..Len(chunks) : ~Survives(p)

\* a meaningful segment above MAX_CHUNK_SIZE made of one sentence
Unsplittable(p) ==
    /\ Branch(chunks[p]) = "oversized"
    /\ Len(SplitSentences(chunks[p].text)) = 1

Degenerate ==
    /\ Sound
    /\ \/ chunks = << >>
       \/ AllRejected
       \/ \E p \in 1..Len(chunks) : Unsplittable(p)

\* the statements left before the return: the entry, one iteration for each
\* segment from chunks[i] on, and the final flush
StepsLeft ==
    CASE pc = "start" -> Len(chunks) + 2
      [] pc = "loop"  -> Len(chunks) + 2 - i
      [] OTHER        -> 0

\* C14: degenerate inputs are no errors.  With a working tokenizer and segments
\* that all have a text, a call on the empty input, on an input whose segments
\* are all rejected by the filter, or on an input with an oversized segment of
\* one sentence raises nothing and every step of it brings the return nearer;
\* for the empty and the all-rejected input it returns the empty list.
C14_DegenerateInputs ==
    /\ [](Degenerate =>
            /\ pc # "raised"
            /\ raised = "none"
            /\ (Done /\ (chunks = << >> \/ AllRejected))
                  => optimized_chunks = << >>)
    /\ [][Degenerate => StepsLeft' < StepsLeft]_vars

\* the call returned after splitting a segment of one 900-token sentence
C14_Witness ==
    /\ Done
    /\ Sound
    /\ \E p \in split_calls : Unsplittable(p) /\ Tokens(p) = 900
    /\ \E p \in 1..Len(chunks) : ~Survives(p)

\* the locals merge_small_chunks has after its first n iterations on chunks_
\* when it runs alone
LocalsAfter(chunks_, n) == MergeLoop(MergeInit, SubSeq(chunks_, 1, n), 1)

\* C15: no state is shared between runs.  Whatever the interleaving of two
\* invocations, each one has at every iteration the buffer and the output list
\* it has when it runs alone, and returns the list it returns alone; in
\* particular a buffer left below MIN_CHUNK_SIZE by one run is not seen by the
\* other.
C15_NoSharedState ==
    \A r \in Invocations :
        /\ runs[r].pc = "loop" =>
              /\ r \in DOMAIN frames
              /\ frames[r] = LocalsAfter(runs[r].chunks, runs[r].i - 1)
        /\ runs[r].pc = "done" =>
              runs[r].result = merge_small_chunks(runs[r].chunks)

\* two overlapping runs on different documents are over: one returned a merged
\* chunk, the other left a buffer below MIN_CHUNK_SIZE behind
C15_Witness ==
    \E r, q \in Invocations :
        /\ r # q
        /\ runs[r].pc = "done" /\ runs[q].pc = "done"
        /\ runs[r].chunks # runs[q].chunks
        /\ runs[r].overlapped \/ runs[q].overlapped
        /\ \E k \in 1..Len(runs[r].result) : runs[r].result[k].kind = "merged"
        /\ q \in DOMAIN frames
        /\ frames[q].current_token_count \in 1..(MIN_CHUNK_SIZE - 1)

\* C16: buffer reset on interruption.  Immediately after a standalone-sized or
\* an oversized segment has been processed the merge buffer is empty: its text
\* is empty and its token count is 0, whether or not it was flushed.
C16_BufferReset ==
    [][(pc = "loop" /\ i <= Len(chunks)
        /\ Branch(chunks[i]) \in {"standalone", "oversized"})
       => /\ current_merged_content' = << >>
          /\ current_token_count' = 0]_vars

\* C17: standalone step.  When the segment S = chunks[i] passes the filter and
\* has MIN <= token count <= MAX, the step appends to the output the buffer
\* content as one merged chunk if and only if the buffer held >= MIN tokens,
\* and then S itself with its text as it is; it appends nothing else and leaves
\* the earlier output chunks and the input segments as they were.
C17_StandaloneStep ==
    [][(/\ pc = "loop" /\ i <= Len(chunks)
        /\ Survives(i)
        /\ Tokens(i) >= MIN_CHUNK_SIZE /\ Tokens(i) <= MAX_CHUNK_SIZE)
       => /\ optimized_chunks' =
                 optimized_chunks
                 \o (IF current_token_count >= MIN_CHUNK_SIZE
                     THEN << [text |-> Strip(current_merged_content),
                              kind |-> "merged", src |-> buf_src,
                              frags |-> << >>, acc |-> current_token_count] >>
                     ELSE << >>)
                 \o << [text |-> chunks[i].text, kind |-> "original",
                        src |-> << i >>, frags |-> << >>, acc |-> Tokens(i)] >>
          /\ chunks' = chunks]_vars

\* a standalone step has just appended a merged chunk and its segment after an
\* earlier output chunk
C17_Witness ==
    /\ pc = "loop"
    /\ i > 1
    /\ Len(optimized_chunks) >= 3
    /\ optimized_chunks[Len(optimized_chunks)].kind = "original"
    /\ optimized_chunks[Len(optimized_chunks)].src = << i - 1 >>
    /\ optimized_chunks[Len(optimized_chunks) - 1].kind = "merged"
    /\ current_token_count = 0

\* C18: undersized step.  When the segment S = chunks[i] passes the filter and
\* has t < MIN tokens, its text is appended to the buffer, after one space when
\* the buffer is not empty, and t is added to the buffer count; if and only if
\* the new count is >= OPTIMAL_CHUNK_SIZE the buffer is appended to the output
\* as one merged chunk and reset in the same step, otherwise the output is
\* unchanged.
C18_UndersizedStep ==
    [][(/\ pc = "loop" /\ i <= Len(chunks)
        /\ Survives(i)
        /\ Tokens(i) < MIN_CHUNK_SIZE)
       => LET content == IF current_merged_content # << >>
                         THEN Concat(current_merged_content,
                                     Concat(Run(" ", 1), chunks[i].text))
                         ELSE chunks[i].text
              count == current_token_count + Tokens(i)
          IN  IF count >= OPTIMAL_CHUNK_SIZE
              THEN /\ optimized_chunks' =
                          Append(optimized_chunks,
                                 [text |-> Strip(content), kind |-> "merged",
                                  src |-> Append(buf_src, i), frags |-> << >>,
                                  acc |-> count])
                   /\ current_merged_content' = << >>
                   /\ current_token_count' = 0
              ELSE /\ optimized_chunks' = optimized_chunks
                   /\ current_merged_content' = content
                   /\ current_token_count' = count]_vars

\* the seventh 80-token segment has just brought the buffer from 480 to 560
\* tokens and the buffer was flushed
C18_Witness ==
    /\ pc = "loop"
    /\ i = 8
    /\ Tokens(7) = 80
    /\ Len(optimized_chunks) = 1
    /\ optimized_chunks[1].acc = 560
    /\ current_token_count = 0
    /\ current_merged_content = << >>

IsMeaningfulChunk(chunk) == is_content_meaningful(chunk.text)

\* an output list without the input positions of its chunks
Unplaced(out) ==
    [k \in 1..Len(out) |->
        [text |-> out[k].text, kind |-> out[k].kind,
         frags |-> out[k].frags, acc |-> out[k].acc]]

\* C23: rejected segments are transparent.  The call returns on an input what
\* it returns on the same input without the segments the filter rejects, and a
\* step on a rejected segment changes neither the buffer nor the output, so
\* undersized segments on both sides of it can share a merged chunk.
C23_RejectedTransparent ==
    /\ [][(pc = "loop" /\ i <= Len(chunks) /\ ~Survives(i))
          => UNCHANGED <<optimized_chunks, current_merged_content,
                         current_token_count, batch, store>>]_vars
    /\ [](Done =>
            Unplaced(optimized_chunks) =
                Unplaced(merge_small_chunks(SelectSeq(chunks, IsMeaningfulChunk))))

\* a merged chunk made of the first and the third segment, the second one
\* being rejected
C23_Witness ==
    /\ Done
    /\ Len(chunks) = 3
    /\ ~Survives(2)
    /\ \E k \in Emitted :
          /\ optimized_chunks[k].kind = "merged"
          /\ optimized_chunks[k].src = <<1, 3>>

\* C24: buffer bound.  After every step the accumulated token count of the
\* buffer is in 0..OPTIMAL_CHUNK_SIZE - 1, and every merged chunk was appended
\* with an accumulated count from MIN_CHUNK_SIZE (100) to 610, the largest
\* buffer plus the largest undersized segment, and is made of at least two
\* segments.
C24_BufferBound ==
    /\ current_token_count \in 0..(OPTIMAL_CHUNK_SIZE - 1)
    /\ \A k \in Emitted :
          optimized_chunks[k].kind = "merged" =>
              /\ optimized_chunks[k].acc
                    \in MIN_CHUNK_SIZE..((OPTIMAL_CHUNK_SIZE - 1) + (MIN_CHUNK_SIZE - 1))
              /\ Len(optimized_chunks[k].src) >= 2

\* the buffer went up to 511 tokens and was flushed with 610
C24_Witness ==
    /\ Done
    /\ Len(chunks) = 7
    /\ Tokens(1) + Tokens(2) + Tokens(3) + Tokens(4) + Tokens(5) + Tokens(6)
          = OPTIMAL_CHUNK_SIZE - 1
    /\ Len(optimized_chunks) = 1
    /\ optimized_chunks[1].acc = (OPTIMAL_CHUNK_SIZE - 1) + (MIN_CHUNK_SIZE - 1)

\* the sum of the token counts of the segments at the positions src
RECURSIVE TokenSum(_)
TokenSum(src) == IF src = << >> THEN 0 ELSE Tokens(Head(src)) + TokenSum(Tail(src))

\* the texts of the segments at the positions src, joined by single spaces
JoinedAt(src) ==
    IF src = << >> THEN << >>
    ELSE Joined([j \in 1..Len(src) |-> chunks[src[j]]], Len(src))

\* C25: buffer consistency.  At every point of a run the buffer text is the
\* space-joined text of some undersized surviving segments taken in input
\* order, the buffer count is the sum of their token counts, and the text is
\* empty if and only if the count is 0 (a reset clears both).
C25_BufferConsistent ==
    /\ \A j \in 1..Len(buf_src) :
          /\ buf_src[j] \in 1..(i - 1)
          /\ Survives(buf_src[j])
          /\ Tokens(buf_src[j]) < MIN_CHUNK_SIZE
    /\ \A j \in 1..(Len(buf_src) - 1) : buf_src[j] < buf_src[j + 1]
    /\ current_merged_content = JoinedAt(buf_src)
    /\ current_token_count = TokenSum(buf_src)
    /\ current_merged_content = << >> <=> current_token_count = 0

\* after a reset at a standalone segment the buffer holds two segments again
C25_Witness ==
    /\ pc = "loop"
    /\ optimized_chunks # << >>
    /\ optimized_chunks[Len(optimized_chunks)].kind = "original"
    /\ buf_src = <<2, 3>>
    /\ current_token_count = Tokens(2) + Tokens(3)
    /\ Tokens(2) # Tokens(3)

\* the output chunks that segment p contributed to as a whole
ChunksOf(p) ==
    {k \in Emitted : /\ optimized_chunks[k].kind \in {"original", "merged"}
                     /\ p \in Positions(optimized_chunks[k].src)}

\* a sequence without a repeated element
NoRepeat(seq) == \A a, b \in 1..Len(seq) : a # b => seq[a] # seq[b]

\* C26: no duplication.  Each input segment is a constituent of at most one
\* standalone or merged chunk, and only once in it; each sentence fragment of
\* an oversized segment is in at most one of its sub-chunks, and only once.
C26_NoDuplication ==
    /\ \A p \in 1..Len(chunks) : Cardinality(ChunksOf(p)) <= 1
    /\ \A k \in Emitted :
          /\ NoRepeat(optimized_chunks[k].src)
          /\ NoRepeat(optimized_chunks[k].frags)
    /\ \A a, b \in Emitted :
          (/\ a # b
           /\ optimized_chunks[a].kind = "split"
           /\ optimized_chunks[b].kind = "split"
           /\ optimized_chunks[a].src = optimized_chunks[b].src)
          => Positions(optimized_chunks[a].frags)
                 \cap Positions(optimized_chunks[b].frags) = {}

\* a returned list with a merged chunk and several sub-chunks of one
\* oversized segment
C26_Witness ==
    /\ Done
    /\ \E k \in Emitted : optimized_chunks[k].kind = "merged"
    /\ \E a, b \in Emitted :
          /\ a # b
          /\ optimized_chunks[a].kind = "split"
          /\ optimized_chunks[b].kind = "split"
          /\ optimized_chunks[a].src = optimized_chunks[b].src

----------------------------------------------------------------------------
(* Properties of split_large_chunk.                                        *)

\* fragment f of the text as the loop uses it (lines 191-197)
FragmentText(f) == RestorePeriod(Strip(split.sentences[f]), split.sentences)

\* the first n fragments of frags joined by single spaces
RECURSIVE JoinFragments(_, _)
JoinFragments(frags, n) ==
    IF n = 0 THEN << >>
    ELSE IF n = 1 THEN FragmentText(frags[1])
    ELSE Concat(Concat(JoinFragments(frags, n - 1), Run(" ", 1)), FragmentText(frags[n]))

\* the sub-chunks finished so far, and at the end the returned list
SubChunks == IF split.pc = "done" THEN split.result ELSE split.chunks

\* C19: splitter size bounds.  Every sub-chunk of split_large_chunk has a token
\* count >= MIN_CHUNK_SIZE; a sub-chunk above OPTIMAL_CHUNK_SIZE is made of
\* exactly one sentence fragment; every sub-chunk is made of whole fragments;
\* and the sub-chunks come in the order of their fragments in the text.
C19_SplitterBounds ==
    \A a \in 1..Len(SubChunks) :
        LET c == SubChunks[a]
        IN  /\ count_tokens(c.text) >= MIN_CHUNK_SIZE
            /\ count_tokens(c.text) > OPTIMAL_CHUNK_SIZE => Len(c.frags) = 1
            /\ c.frags # << >>
            /\ c.text = JoinFragments(c.frags, Len(c.frags))
            /\ \A j \in 1..(Len(c.frags) - 1) : c.frags[j] < c.frags[j + 1]
            /\ \A b \in (a + 1)..Len(SubChunks) :
                  c.frags[Len(c.frags)] < SubChunks[b].frags[1]

\* the call returned a one-fragment sub-chunk above OPTIMAL_CHUNK_SIZE followed
\* by a sub-chunk of two fragments
C19_Witness ==
    /\ split.pc = "done"
    /\ Len(split.result) = 2
    /\ count_tokens(split.result[1].text) > OPTIMAL_CHUNK_SIZE
    /\ Len(split.result[2].frags) = 2

\* C20: splitter discard case.  The content of a current sub-chunk below
\* MIN_CHUNK_SIZE is replaced and lost only when it is the very first fragment
\* of the text; no fragment after the first is ever dropped by this rule.
C20_DiscardOnlyFirst ==
    split.dropped \subseteq {1}

\* the fragments of the text the loop has processed so far
Processed == 1..(split.k - 1)

\* C21: period restoration.  After the split on ". " a period is added back to
\* every non-empty fragment except the last fragment of the text, whatever the
\* text, also when an earlier fragment has the characters of the last one.
C21_PeriodRestored ==
    split.pc \in {"loop", "done"} =>
        \A f \in Processed :
            Strip(split.sentences[f]) # << >> =>
                (f \in split.restored <=> f # Len(split.sentences))

\* the fragments that are in some sub-chunk of the list
FragmentsIn(subchunks) ==
    UNION {{subchunks[a].frags[j] : j \in 1..Len(subchunks[a].frags)} :
              a \in 1..Len(subchunks)}

\* C22: trailing rule.  After the last fragment the trailing sub-chunk becomes
\* the last element of the result if and only if it has >= MIN_CHUNK_SIZE
\* tokens; below that nothing is appended and the fragments of the trailing
\* sub-chunk are in no returned sub-chunk.
C22_TrailingRule ==
    /\ [][(split.pc = "loop" /\ split.k > Len(split.sentences))
          => split'.result =
                 IF count_tokens(split.current_chunk) >= MIN_CHUNK_SIZE
                 THEN Append(split.chunks,
                             [text |-> split.current_chunk,
                              frags |-> split.cur_frags])
                 ELSE split.chunks]_vars
    /\ []((split.pc = "done"
           /\ count_tokens(split.current_chunk) < MIN_CHUNK_SIZE)
          => FragmentsIn(split.result)
                 \cap {split.cur_frags[j] : j \in 1..Len(split.cur_frags)} = {})

\* the call returned two sub-chunks and dropped a trailing sub-chunk of one
\* fragment that was one token short of MIN_CHUNK_SIZE
C22_Witness ==
    /\ split.pc = "done"
    /\ Len(split.result) = 2
    /\ Len(split.cur_frags) = 1
    /\ count_tokens(split.current_chunk) = MIN_CHUNK_SIZE - 1

(* C27: an oversized segment is never lost entirely.  Every call of        *)
(* split_large_chunk is on a text of more than MAX_CHUNK_SIZE tokens; the  *)
(* list it returns holds at least one sub-chunk.                           *)
C27_NeverLost ==
    (split.pc = "done" /\ count_tokens(split.text) > MAX_CHUNK_SIZE)
        => Len(split.result) >= 1


----------------------------------------------------------------------------
(* batch_processor.py: batch_process_books runs `python main.py process`   *)
(* on every readable file of the books directory, one child process per    *)
(* file, through process_single_book.  A path is named by its rank in      *)
(* string order.  The child writes to two pipes of PipeCapacity units; a   *)
(* write call returns when the pipe has room for its unit.  The child      *)
(* makes at most MaxWrites writes and then exits, so it terminates         *)
(* whenever its output is consumed; it keeps both pipes open until then.   *)
(* log_to_supabase catches what it raises and is left out.  started lists  *)
(* the files for which process_single_book was entered, abandoned the      *)
(* children process_single_book left without waiting for them.             *)

MaxBooks == 2

MaxWrites == 3

PipeCapacity == 2

Paths == 1..MaxBooks

Streams == {"stdout", "stderr"}

NoRepeatedPath(l) == \A a, b \in 1..Len(l) : l[a] = l[b] => a = b

\* what books_path.glob("*.pdf") can yield, line 58
Listings ==
    {l \in UNION {[1..n -> Paths] : n \in 0..MaxBooks} : NoRepeatedPath(l)}

\* sorted(pdf_files), line 61
SortPaths(l) ==
    [k \in 1..Len(l) |->
        CHOOSE p \in {l[a] : a \in 1..Len(l)} :
            Cardinality({a \in 1..Len(l) : l[a] < p}) = k - 1]

NoChild == [running |-> FALSE]

NewBatch(listing, readable, test_only) ==
    [pc |-> "start", test_only |-> test_only, listing |-> listing,
     readable |-> readable, readable_files |-> << >>, index |-> 1,
     results |-> << >>, child |-> NoChild, started |-> << >>,
     abandoned |-> {}]

\* the files line 108 can open are files of the listing
BatchRuns ==
    {b \in {NewBatch(l, r, t) : l \in Listings, r \in SUBSET Paths, t \in BOOLEAN} :
        b.readable \subseteq {b.listing[a] : a \in 1..Len(b.listing)}}

BatchInit ==
    /\ chunks = << >>
    /\ MergeStart
    /\ probe = NoProbe
    /\ unprocessable = {}
    /\ raised = "none"
    /\ runs = << >>
    /\ frames = << >>
    /\ split = NoSplit
    /\ batch \in BatchRuns
    /\ store = NoStore

\* main.py lines 66-127: the exit code of `python main.py process <path>`
ExitCode(outcome) == IF outcome = "processed" THEN 0 ELSE 1

Outcomes == {"processed", "file not found", "exception"}

\* StatusOf that calls every exit code a success
StatusOf_Success(returncode) == "success"

\* lines 229-230 and 275-276
StatusOf(returncode) == IF returncode = 0 THEN "success" ELSE "failed"

\* lines 402-403 and the end of the loop of line 401
AppendResult(result) ==
    [batch EXCEPT !.results = Append(@, result),
                  !.child = NoChild,
                  !.index = @ + 1,
                  !.pc = IF batch.index = Len(batch.readable_files)
                         THEN "done" ELSE "launch"]

\* lines 365-394: test_read_all_pdfs, the test_only return, readable_files
BatchStart ==
    /\ batch.pc = "start"
    /\ LET pdf_files == SortPaths(batch.listing)
           readable_files == SelectSeq(pdf_files, LAMBDA f : f \in batch.readable)
       IN  batch' = IF pdf_files = << >> \/ batch.test_only \/ readable_files = << >>
                    THEN [batch EXCEPT !.pc = "done"]
                    ELSE [batch EXCEPT !.pc = "launch",
                                       !.readable_files = readable_files]
    /\ UNCHANGED <<merge_vars, probe, unprocessable, raised, runs, frames, split, store>>

\* lines 206-211: subprocess.Popen starts the child
Popen ==
    /\ batch.pc = "launch"
    /\ batch' = [batch EXCEPT
           !.pc = "reading",
           !.started = Append(@, batch.readable_files[batch.index]),
           !.child = [running |-> TRUE,
                      path |-> batch.readable_files[batch.index],
                      writes |-> 0, writing |-> "nothing",
                      pipe |-> [s \in Streams |-> 0],
                      exited |-> FALSE, returncode |-> {}]]
    /\ UNCHANGED <<merge_vars, probe, unprocessable, raised, runs, frames, split, store>>

\* lines 206 and 282-288: subprocess.Popen raises
PopenRaises ==
    /\ batch.pc = "launch"
    /\ batch' = [AppendResult([file_path |-> batch.readable_files[batch.index],
                               status |-> "error", returncode |-> {},
                               raised |-> TRUE])
                    EXCEPT !.started = Append(@, batch.readable_files[batch.index])]
    /\ UNCHANGED <<merge_vars, probe, unprocessable, raised, runs, frames, split, store>>

ChildRuns == batch.pc = "reading" /\ ~batch.child.exited

\* the child calls write on one of its streams
ChildBeginsWrite ==
    /\ ChildRuns
    /\ batch.child.writing = "nothing"
    /\ batch.child.writes < MaxWrites
    /\ \E s \in Streams :
           batch' = [batch EXCEPT !.child.writing = s, !.child.writes = @ + 1]
    /\ UNCHANGED <<merge_vars, probe, unprocessable, raised, runs, frames, split, store>>

\* the write returns: the pipe had room
ChildCompletesWrite ==
    /\ ChildRuns
    /\ batch.child.writing \in Streams
    /\ batch.child.pipe[batch.child.writing] < PipeCapacity
    /\ batch' = [batch EXCEPT !.child.pipe[batch.child.writing] = @ + 1,
                              !.child.writing = "nothing"]
    /\ UNCHANGED <<merge_vars, probe, unprocessable, raised, runs, frames, split, store>>

\* main.py returns or calls sys.exit: the child's ends of the pipes close
ChildExits ==
    /\ ChildRuns
    /\ batch.child.writing = "nothing"
    /\ \E outcome \in Outcomes :
           batch' = [batch EXCEPT !.child.exited = TRUE,
                                  !.child.returncode = {ExitCode(outcome)}]
    /\ UNCHANGED <<merge_vars, probe, unprocessable, raised, runs, frames, split, store>>

\* lines 217-220: process.stdout.readline() returns a line
ReadLine ==
    /\ batch.pc = "reading"
    /\ batch.child.pipe["stdout"] > 0
    /\ batch' = [batch EXCEPT !.child.pipe["stdout"] = @ - 1]
    /\ UNCHANGED <<merge_vars, probe, unprocessable, raised, runs, frames, split, store>>

\* lines 217 and 282-288: reading a line raises (the bytes do not decode)
ReadRaises ==
    /\ batch.pc = "reading"
    /\ batch.child.pipe["stdout"] > 0
    /\ batch' = [AppendResult([file_path |-> batch.child.path, status |-> "error",
                               returncode |-> {}, raised |-> TRUE])
                    EXCEPT !.abandoned = IF batch.child.exited THEN @
                                         ELSE @ \cup {batch.child.path}]
    /\ UNCHANGED <<merge_vars, probe, unprocessable, raised, runs, frames, split, store>>

\* lines 217-277: readline returns '' at end of file, process.wait() returns
\* the exit code, process.stderr.read() takes what the child wrote
EndOfOutput ==
    /\ batch.pc = "reading"
    /\ batch.child.pipe["stdout"] = 0
    /\ batch.child.exited
    /\ batch' = AppendResult(
           [file_path |-> batch.child.path,
            status |-> StatusOf(CHOOSE c \in batch.child.returncode : TRUE),
            returncode |-> batch.child.returncode, raised |-> FALSE])
    /\ UNCHANGED <<merge_vars, probe, unprocessable, raised, runs, frames, split, store>>

BatchNext ==
    \/ BatchStart
    \/ Popen
    \/ PopenRaises
    \/ ChildBeginsWrite
    \/ ChildCompletesWrite
    \/ ChildExits
    \/ ReadLine
    \/ ReadRaises
    \/ EndOfOutput

BatchSpec == BatchInit /\ [][BatchNext]_vars

----------------------------------------------------------------------------
(* Properties of the batch run.                                            *)

\* line 217: readline has nothing to return and the pipe is still open
ParentWaitsForStdout ==
    batch.pc = "reading" /\ batch.child.pipe["stdout"] = 0 /\ ~batch.child.exited

\* the child is inside a write to the full stderr pipe
ChildBlockedOnStderr ==
    /\ ChildRuns
    /\ batch.child.writing = "stderr"
    /\ batch.child.pipe["stderr"] = PipeCapacity

(* C28: process_single_book returns a result for every child that would    *)
(* terminate if its output were consumed: there is no state in which the   *)
(* parent waits for stdout while the child is blocked writing to the full  *)
(* stderr pipe.                                                            *)
C28_NoPipeDeadlock == ~(ParentWaitsForStdout /\ ChildBlockedOnStderr)


\* readable_files as line 390 must have them: the readable files, sorted
ExpectedFiles ==
    SelectSeq(SortPaths(batch.listing), LAMBDA f : f \in batch.readable)

ResultPaths == [k \in 1..Len(batch.results) |-> batch.results[k].file_path]

\* the file whose child is being read
InProgress == IF batch.pc = "reading" THEN << batch.child.path >> ELSE << >>

StatusMatches(r) ==
    /\ r.status \in {"success", "failed", "error"}
    /\ r.status = "success" <=> r.returncode = {0}
    /\ r.status = "failed" <=> r.returncode \notin {{}, {0}}
    /\ r.status = "error" <=> r.raised

\* a result that is not a success was appended and a readable file is left
BookFailed ==
    /\ Len(batch'.results) = Len(batch.results) + 1
    /\ batch'.results[Len(batch'.results)].status \in {"failed", "error"}
    /\ Len(batch'.results) < Len(ExpectedFiles)

(* C29: the readable files are processed one at a time in sorted path      *)
(* order: the results are those of the first readable files in that order, *)
(* the only other file entered is the one being read, and at the return    *)
(* there is one result per readable file; a status is success exactly for  *)
(* exit code 0, failed for another exit code, error when launching or      *)
(* reading raised; after a failed or errored book the loop is at the       *)
(* launch of the next readable file; with test_only no file is entered.    *)
C29_BatchOrder ==
    /\ [](/\ Len(batch.results) <= Len(ExpectedFiles)
          /\ ResultPaths = SubSeq(ExpectedFiles, 1, Len(batch.results))
          /\ \A k \in 1..(Len(batch.results) - 1) : ResultPaths[k] < ResultPaths[k + 1]
          /\ batch.started = ResultPaths \o InProgress
          /\ \A k \in 1..Len(batch.results) : StatusMatches(batch.results[k])
          /\ batch.test_only => batch.started = << >> /\ batch.results = << >>
          /\ (batch.pc = "done" /\ ~batch.test_only) => ResultPaths = ExpectedFiles)
    /\ [][BookFailed =>
             /\ batch'.pc = "launch"
             /\ batch'.readable_files[batch'.index]
                    = ExpectedFiles[Len(batch.results) + 2]]_vars

\* the directory was listed out of order, the first book failed and the
\* second one was processed with success
C29_Witness ==
    /\ batch.pc = "done"
    /\ batch.listing = << 2, 1 >>
    /\ ResultPaths = << 1, 2 >>
    /\ batch.results[1].status = "failed"
    /\ batch.results[2].status = "success"


----------------------------------------------------------------------------
(* store_document_and_sections, embedding.py lines 281-363.  The database  *)
(* is the two tables documents and document_sections; an insert gives the  *)
(* rows back, gives no data back, or raises.  generate_embedding gives a   *)
(* vector of some dimension or raises.  A chunk carries a text and the     *)
(* token_count it was given upstream, which may be stale.  embeddings      *)
(* records what generate_embedding did for each chunk.                     *)

MaxStoreChunks == 3

EmbeddingDimension == 1536

\* a vector of another model, text-embedding-3-large
OtherDimension == 2 * EmbeddingDimension

StoredChunk(text, token_count) == [text |-> text, token_count |-> token_count]

StoreLibrary ==
    {StoredChunk(U99, count_tokens(U99)), StoredChunk(U99, count_tokens(S550)),
     StoredChunk(S100, count_tokens(S100)), StoredChunk(S550, count_tokens(S550))}

StoreCalls ==
    {[pc |-> "insert document", chunks |-> c, i |-> 1, documents |-> << >>,
      sections |-> << >>, sections_data |-> << >>, embeddings |-> << >>] :
        c \in UNION {[1..n -> StoreLibrary] : n \in 0..MaxStoreChunks}}

StoreInit ==
    /\ chunks = << >>
    /\ MergeStart
    /\ probe = NoProbe
    /\ unprocessable \in {{}, {S550}}
    /\ raised = "none"
    /\ runs = << >>
    /\ frames = << >>
    /\ split = NoSplit
    /\ batch = NoBatch
    /\ store \in StoreCalls

InsertResults == {"rows", "no data", "raises"}

\* lines 300-305: the document row is inserted
InsertDocument ==
    /\ store.pc = "insert document"
    /\ store' = [store EXCEPT !.pc = "loop",
                              !.documents = Append(@, [id |-> 1])]
    /\ UNCHANGED <<merge_vars, probe, unprocessable, raised, runs, frames, split, batch>>

\* lines 300-303 and 361-363: the insert raises or gives no data back
InsertDocumentFails ==
    /\ store.pc = "insert document"
    /\ \E result \in InsertResults \ {"rows"} :
           store' = [store EXCEPT !.pc = "raised"]
    /\ UNCHANGED <<merge_vars, probe, unprocessable, raised, runs, frames, split, batch>>

InStoreLoop == store.pc = "loop" /\ store.i <= Len(store.chunks)

\* the next chunk, with what generate_embedding did for this one
NextChunk(failed, dimension) ==
    [store EXCEPT !.i = @ + 1,
                  !.embeddings = Append(@, [raised |-> failed, dimension |-> dimension])]

\* lines 318 and 343-345: generate_embedding raises
EmbeddingFails ==
    /\ InStoreLoop
    /\ store' = NextChunk(TRUE, 0)
    /\ UNCHANGED <<merge_vars, probe, unprocessable, raised, runs, frames, split, batch>>

\* lines 321-323: the vector has not 1536 dimensions
WrongDimension ==
    /\ InStoreLoop
    /\ store' = NextChunk(FALSE, OtherDimension)
    /\ UNCHANGED <<merge_vars, probe, unprocessable, raised, runs, frames, split, batch>>

\* lines 326 and 343-345: count_tokens raises
CountingFails ==
    /\ InStoreLoop
    /\ CountFails(store.chunks[store.i].text)
    /\ store' = NextChunk(FALSE, EmbeddingDimension)
    /\ UNCHANGED <<merge_vars, probe, unprocessable, raised, runs, frames, split, batch>>

\* SectionTokens that takes the count the chunk came with
SectionTokens_Inherited(chunk) == chunk.token_count

\* line 326
SectionTokens(chunk) == count_tokens(chunk.text)

\* lines 329-331: too small after optimization
SkipTooSmall ==
    /\ InStoreLoop
    /\ ~CountFails(store.chunks[store.i].text)
    /\ SectionTokens(store.chunks[store.i]) < MIN_CHUNK_SIZE
    /\ store' = NextChunk(FALSE, EmbeddingDimension)
    /\ UNCHANGED <<merge_vars, probe, unprocessable, raised, runs, frames, split, batch>>

\* lines 333-341: the section is prepared
AddSection ==
    /\ InStoreLoop
    /\ ~CountFails(store.chunks[store.i].text)
    /\ SectionTokens(store.chunks[store.i]) >= MIN_CHUNK_SIZE
    /\ store' = [NextChunk(FALSE, EmbeddingDimension) EXCEPT
           !.sections_data =
               Append(@, [document_id |-> store.documents[1].id,
                          content |-> store.chunks[store.i].text,
                          embedding |-> EmbeddingDimension,
                          token_count |-> SectionTokens(store.chunks[store.i]),
                          src |-> store.i])]
    /\ UNCHANGED <<merge_vars, probe, unprocessable, raised, runs, frames, split, batch>>

AfterStoreLoop == store.pc = "loop" /\ store.i > Len(store.chunks)

\* lines 348 and 356-359: no valid sections to store
ReturnWithoutSections ==
    /\ AfterStoreLoop
    /\ store.sections_data = << >>
    /\ store' = [store EXCEPT !.pc = "returned"]
    /\ UNCHANGED <<merge_vars, probe, unprocessable, raised, runs, frames, split, batch>>

\* lines 348-353 and 359: all sections are inserted in one batch
InsertSections ==
    /\ AfterStoreLoop
    /\ store.sections_data # << >>
    /\ store' = [store EXCEPT !.pc = "returned", !.sections = store.sections_data]
    /\ UNCHANGED <<merge_vars, probe, unprocessable, raised, runs, frames, split, batch>>

\* lines 350-355 and 361-363: the insert raises or gives no data back
InsertSectionsFails ==
    /\ AfterStoreLoop
    /\ store.sections_data # << >>
    /\ \E result \in InsertResults \ {"rows"} :
           store' = [store EXCEPT !.pc = "raised"]
    /\ UNCHANGED <<merge_vars, probe, unprocessable, raised, runs, frames, split, batch>>

StoreNext ==
    \/ InsertDocument
    \/ InsertDocumentFails
    \/ EmbeddingFails
    \/ WrongDimension
    \/ CountingFails
    \/ SkipTooSmall
    \/ AddSection
    \/ ReturnWithoutSections
    \/ InsertSections
    \/ InsertSectionsFails

StoreSpec == StoreInit /\ [][StoreNext]_vars

----------------------------------------------------------------------------
(* Properties of store_document_and_sections.                              *)

\* chunk k got a vector of 1536 dimensions and a token count of MIN or more
Storable(k) ==
    /\ ~store.embeddings[k].raised
    /\ store.embeddings[k].dimension = EmbeddingDimension
    /\ ~CountFails(store.chunks[k].text)
    /\ count_tokens(store.chunks[k].text) >= MIN_CHUNK_SIZE

SectionSources(sections) == [j \in 1..Len(sections) |-> sections[j].src]

\* the sections are those of the storable chunks seen so far, in their order
SectionsInOrder(sections, seen) ==
    /\ \A j \in 1..(Len(sections) - 1) : sections[j].src < sections[j + 1].src
    /\ {sections[j].src : j \in 1..Len(sections)} = {k \in 1..seen : Storable(k)}
    /\ \A j \in 1..Len(sections) :
           /\ sections[j].embedding = 1536
           /\ sections[j].content = store.chunks[sections[j].src].text
           /\ sections[j].token_count = count_tokens(sections[j].content)
           /\ sections[j].token_count >= MIN_CHUNK_SIZE
           /\ sections[j].document_id = store.documents[1].id

\* the insert of the sections failed
SectionInsertFailed == AfterStoreLoop /\ store'.pc = "raised"

(* C30: the document row is in its table before any section; the sections *)
(* prepared and inserted are those of the chunks that got a 1536-          *)
(* dimensional embedding and a token count, recomputed from the text, of   *)
(* MIN or more, in the order of the chunks; a chunk whose embedding or     *)
(* counting fails costs one iteration and the loop goes on; when the       *)
(* insert of the sections fails the error is raised, no section is stored  *)
(* and the document row stays.                                             *)
C30_StorageFiltering ==
    /\ [](/\ (store.sections # << >> \/ store.sections_data # << >>)
                => Len(store.documents) = 1
          /\ store.pc = "loop"
                => SectionsInOrder(store.sections_data, store.i - 1)
          /\ store.pc = "returned"
                => /\ store.sections = store.sections_data
                   /\ SectionsInOrder(store.sections, Len(store.chunks)))
    /\ [][InStoreLoop => store'.pc = "loop" /\ store'.i = store.i + 1]_vars
    /\ [][SectionInsertFailed =>
              /\ store'.sections = << >>
              /\ store'.documents = store.documents
              /\ Len(store.documents) = 1]_vars

\* the embedding of the second of three chunks failed, the other two were
\* prepared, and the insert of the sections failed: the document row is there
C30_Witness ==
    /\ store.pc = "raised"
    /\ Len(store.chunks) = 3
    /\ Len(store.embeddings) = 3
    /\ store.embeddings[2].raised
    /\ SectionSources(store.sections_data) = << 1, 3 >>
    /\ Len(store.documents) = 1
    /\ store.sections = << >>


----------------------------------------------------------------------------
(* is_content_meaningful called on its own.  A probe text is built from    *)
(* its parameters: lead blanks, the chosen keywords (each followed by one  *)
(* blank, capitalised or not), fill letters, inner whitespace characters,  *)
(* one more letter, a closing character (or none) and trail blanks.        *)

Capitalize(c) ==
    CASE c = "t" -> "T"
      [] c = "c" -> "C"
      [] c = "p" -> "P"
      [] c = "i" -> "I"
      [] c = "a" -> "A"
      [] c = "b" -> "B"
      [] c = "r" -> "R"
      [] OTHER   -> c

KeywordText(k, cap) ==
    LET w == toc_indicators[k]
    IN  (IF cap
         THEN Normalize(<< <<Capitalize(w[1][1]), 1>> >> \o Run(w[1][1], w[1][2] - 1)
                        \o Tail(w))
         ELSE w) \o Run(" ", 1)

RECURSIVE KeywordsText(_, _, _)
KeywordsText(ks, cap, k) ==
    IF k > Len(toc_indicators) THEN << >>
    ELSE (IF k \in ks THEN KeywordText(k, cap) ELSE << >>) \o KeywordsText(ks, cap, k + 1)

ProbeText(q) ==
    Normalize(Run(" ", q.lead) \o KeywordsText(q.kws, q.cap, 1) \o Run("z", q.fill)
              \o Run(q.innerChar, q.inner) \o Run("y", 1)
              \o Run(q.close, IF q.close = "" THEN 0 ELSE 1) \o Run(" ", q.trail))

KeywordChoices == {{}, {3}, {1}, {3, 4}, {1, 3}, {3, 4, 5}, {4, 5, 6, 7, 8}}

ProbeParams ==
    [lead : {0, 2}, trail : {0, 1}, kws : KeywordChoices, cap : BOOLEAN,
     fill : {1, 27, 28, 30, 31, 46, 47}, inner : {1, 2, 70, 71},
     innerChar : Whitespace, close : {"", ".", "!", "?", ";", ":", ","}]

MaxCalls == 2

Probes ==
    {[params |-> q, text |-> ProbeText(q), verdict |-> "unknown", calls |-> 0] :
        q \in ProbeParams}

FilterInit ==
    /\ chunks = << >>
    /\ MergeStart
    /\ probe \in Probes
    /\ unprocessable = {}
    /\ raised = "none"
    /\ runs = << >>
    /\ frames = << >>
    /\ split = NoSplit
    /\ batch = NoBatch
    /\ store = NoStore

\* a call is_content_meaningful(probe.text)
CallFilter ==
    /\ probe.calls < MaxCalls
    /\ probe' = [probe EXCEPT
                   !.verdict = IF is_content_meaningful(probe.text)
                               THEN "accepted" ELSE "rejected",
                   !.calls = @ + 1]
    /\ UNCHANGED <<merge_vars, unprocessable, raised, runs, frames, split, batch, store>>

FilterNext == CallFilter

FilterSpec == FilterInit /\ [][FilterNext]_vars

(* What the parameters of a probe say about its text, character by         *)
(* character, without going through the string operations above.          *)

KeywordLength == <<17, 8, 7, 4, 5, 8, 12, 10>>

\* blanks inside keyword k
KeywordBlanks == <<2, 0, 0, 0, 0, 0, 0, 0>>

RECURSIVE SumOver(_, _)
SumOver(f, ks) ==
    IF ks = {} THEN 0
    ELSE LET k == CHOOSE k \in ks : TRUE IN f[k] + SumOver(f, ks \ {k})

\* the keywords that occur in the text: 'table of contents' brings 'contents'
KeywordsPresent(q) == q.kws \cup (IF 1 \in q.kws THEN {2} ELSE {})

TrimmedLength(q) ==
    SumOver(KeywordLength, q.kws) + Cardinality(q.kws) + q.fill + q.inner + 1
    + (IF q.close = "" THEN 0 ELSE 1)

TextLength(q) == q.lead + TrimmedLength(q) + q.trail

WhitespaceCount(q) ==
    q.lead + SumOver(KeywordBlanks, q.kws) + Cardinality(q.kws) + q.inner + q.trail

ProbeRejected(q) ==
    \/ TrimmedLength(q) < 50
    \/ Cardinality(KeywordsPresent(q)) >= 3
    \/ 10 * WhitespaceCount(q) > 7 * TextLength(q)
    \/ q.close \notin {".", "!", "?", ";", ":"}

\* C10: is_content_meaningful(text) returns false if and only if the trimmed
\* text has fewer than 50 characters, or at least 3 of the 8 keywords occur in
\* the lowercased text, or tab, newline and space characters make up more than
\* 70% of the characters of the text, or the text contains none of . ! ? ; : ;
\* every call on the same text gives the same result.
C10_FilterVerdict ==
    probe.calls > 0 =>
        probe.verdict = IF ProbeRejected(probe.params) THEN "rejected" ELSE "accepted"

\* an accepted text at two of the limits: exactly 50 trimmed characters and
\* two keywords, written with capitals
C10_Witness ==
    /\ probe.calls = MaxCalls
    /\ probe.verdict = "accepted"
    /\ TrimmedLength(probe.params) = 50
    /\ Cardinality(KeywordsPresent(probe.params)) = 2
    /\ probe.params.cap

====
